---- MODULE Spec2Model ----
(***************************************************************************)
(* Model of the Actigraph CentrePoint ingestion program:                   *)
(*   src/actigraph_source.py   ActigraphOAuth2, actigraph_source           *)
(*   src/actigraph_pipeline.py main                                        *)
(* A run is one call of pipeline.run on the daily_statistics resource that *)
(* actigraph_source configures: every page request is signed by the        *)
(* authenticator, the items of a page pass the incremental cursor of the   *)
(* endpoint configuration, and the resource state is kept only by a run    *)
(* that ends without an exception.                                         *)
(***************************************************************************)
EXTENDS Integers, Sequences, FiniteSets, TLC

\* ------------------------------------------------------------------ bounds
MaxChanges == 2
MaxId == 2
MaxDay == 2
PageSize == 1
NumThreads == 3

None == "None"

\* ------------------------------------------------- ISO-8601 cursor values
\* A timestamp is the string of its zero-padded digits, YYYYMMDD (the
\* separators and the time of day are the same in every value of the model).
Iso(y, m, d) ==
    << y \div 1000, (y \div 100) % 10, (y \div 10) % 10, y % 10,
       m \div 10, m % 10, d \div 10, d % 10 >>

\* Python's str comparison: the first differing character decides, a proper
\* prefix is smaller.
RECURSIVE StrLess(_, _)
StrLess(a, b) ==
    IF a = << >> THEN b # << >>
    ELSE IF b = << >> THEN FALSE
    ELSE IF Head(a) # Head(b) THEN Head(a) < Head(b)
    ELSE StrLess(Tail(a), Tail(b))

\* Faulty variant: the cursor takes the value of the row it saw last.
StrMax_Latest(a, b) == a

\* Python's max(row_value, last_value) on two strings.
StrMax(a, b) == IF StrLess(a, b) THEN b ELSE a

initial_value == Iso(1970, 1, 1)
cursor_path == "lastEpochDateTimeUtc"

Days == { Iso(2024, 1, d) : d \in 1..MaxDay }
Bodies == {"a", "b"}
ApiRecord == [id : 1..MaxId, lastEpochDateTimeUtc : Days, body : Bodies]

\* ------------------------------------------------------ the authenticator
\* The token endpoint mints a new token for every request it grants: the
\* token after token `last` is token last + 1.
Mint(last) == last + 1
TokenStatuses == {200, 400}
PageStatuses == {200, 401}

\* Faulty variant: only a 5xx answer raises.
raise_for_status_5xx(status) == status >= 500

\* response.raise_for_status(): an HTTPError for every 4xx and 5xx answer.
raise_for_status(status) == status >= 400

\* __init__: self.access_token = None; a token is a positive number.
NoToken == 0

\* Faulty variant: the cached token is never reused.
NeedsToken_Always(tok) == TRUE

\* __call__: `if not self.access_token`.
NeedsToken(tok) == tok = NoToken

\* __call__: f"Bearer {self.access_token}".
Bearer(tok) == <<"Bearer", tok>>

\* ------------------------------------------------------- actigraph_source
params(setting) ==
    {"fromDate", "toDate"} \cup
    (IF setting # None THEN {"dailyStatisticsSettingId"} ELSE {})

\* An optional value is a sequence of length 0 or 1.
Absent == << >>
Some(x) == << x >>
IsSome(o) == Len(o) = 1
The(o) == o[1]

Incremental == [cursor_path |-> cursor_path, initial_value |-> initial_value]

\* Faulty variant: the test of the refresh flag is inverted.
endpoint_config_inverted(refresh) ==
    [ data_selector |-> "items",
      incremental |-> IF refresh THEN Some(Incremental) ELSE Absent ]

endpoint_config(refresh) ==
    [ data_selector |-> "items",
      incremental |-> IF ~refresh THEN Some(Incremental) ELSE Absent ]

actigraph_source(setting, refresh) ==
    [ params |-> params(setting),
      write_disposition |-> "append",
      incremental |-> endpoint_config(refresh).incremental,
      columns |-> {} ]

\* main: the source is built with the default refresh=False; the refresh
\* branch applies an incremental hint with the same cursor path and the same
\* initial value; then the partition hints are applied.
apply_hints_incremental(source, inc) ==
    [source EXCEPT !.incremental = Some(inc)]

apply_hints_columns(source, cols) ==
    [source EXCEPT !.write_disposition = "append", !.columns = cols]

PartitionColumns == {"study_id", "ingestion_date"}

main(refresh) ==
    LET source == actigraph_source(None, FALSE)
        hinted == IF refresh
                    THEN apply_hints_incremental(source, Incremental)
                    ELSE source
    IN  apply_hints_columns(hinted, PartitionColumns)

\* The entry points of a run.
Entries == {"main", "main_refresh", "source_refresh"}
RefreshEntries == {"main_refresh", "source_refresh"}

ConfigOf(e) ==
    IF e = "main" THEN main(FALSE)
    ELSE IF e = "main_refresh" THEN main(TRUE)
    ELSE actigraph_source(None, TRUE)

\* The query string of a page request: the configured params, and a cursor
\* parameter only when the incremental configuration names a start_param.
QueryParams(cfg) ==
    cfg.params \cup
    (IF IsSome(cfg.incremental)
          /\ "start_param" \in DOMAIN The(cfg.incremental)
       THEN {The(cfg.incremental).start_param} ELSE {})

\* Faulty variant: a 4xx page answer is ignored and the run goes on.
ResponseAction_Ignore4xx(status) == IF status >= 500 THEN "raise" ELSE "process"

\* What the REST client does with a page answer: the endpoint configuration
\* gives no response_actions, so every 4xx/5xx answer raises and nothing is
\* retried with a new token.
ResponseAction(status) == IF status >= 400 THEN "raise" ELSE "process"

\* ------------------------------------------- the incremental cursor of a run
\* endpoint_config["incremental"] makes the resource run with
\* dlt.sources.incremental(cursor_path, initial_value): last_value_func is
\* max, the start of the range is closed, and the rows that carry the kept
\* last_value are remembered by hash so that they are not handed on twice.
\* Resource state kept between runs: Absent, or Some([last_value,
\* unique_hashes]).

\* Faulty variant: every run starts from initial_value, the kept value unread.
StartValue_Initial(st) == initial_value

StartValue(st) == IF IsSome(st) THEN The(st).last_value ELSE initial_value

\* Faulty variant: the rows seen at the kept cursor value are forgotten.
StartHashes_None(st) == {}

StartHashes(st) == IF IsSome(st) THEN The(st).unique_hashes ELSE {}

\* Faulty variant: a row is identified by its id alone, as with a primary key.
RowHash_Key(row) == << row.id >>

\* No primary key is configured: a row is identified by the digest of its
\* whole content, json.dumps(row, sort_keys=True).
RowHash(row) == << row.body, row.id, row.lastEpochDateTimeUtc >>

\* One row through the cursor (last_value_func = max, closed range start).
\* cur = [last_value, unique_hashes]; the result adds accept.
Transform(row, start_value, start_hashes, cur) ==
    LET rv == row[cursor_path]
        h == RowHash(row)
        new == StrMax(rv, cur.last_value)
    IN  IF new = cur.last_value
          THEN IF StrMax(rv, start_value) = start_value
                    /\ (rv # start_value \/ h \in start_hashes)
                 THEN [accept |-> FALSE, last_value |-> cur.last_value,
                       unique_hashes |-> cur.unique_hashes]
                 ELSE [accept |-> TRUE, last_value |-> cur.last_value,
                       unique_hashes |->
                           IF rv = cur.last_value
                             THEN cur.unique_hashes \cup {h}
                             ELSE cur.unique_hashes]
          ELSE [accept |-> TRUE, last_value |-> new, unique_hashes |-> {h}]

\* actigraph_source returns source.daily_statistics as it is: an item reaches
\* the loader with the fields the API gave it.
Emit(row) == row

\* The items of one page, in the order of the response.
RECURSIVE Feed(_, _, _, _, _)
Feed(items, inc, start_value, start_hashes, acc) ==
    IF items = << >> THEN acc
    ELSE LET row == Head(items)
             t == IF inc
                    THEN Transform(row, start_value, start_hashes,
                                   [last_value |-> acc.last_value,
                                    unique_hashes |-> acc.unique_hashes])
                    ELSE [accept |-> TRUE, last_value |-> acc.last_value,
                          unique_hashes |-> acc.unique_hashes]
         IN  Feed(Tail(items), inc, start_value, start_hashes,
                  [emitted |-> IF t.accept THEN acc.emitted \cup {Emit(row)}
                                           ELSE acc.emitted,
                   rejected |-> IF t.accept THEN acc.rejected
                                            ELSE acc.rejected \cup {row},
                   last_value |-> t.last_value,
                   unique_hashes |-> t.unique_hashes])

Orders(S) ==
    { q \in [1..Cardinality(S) -> S] : \A i, j \in DOMAIN q : i # j => q[i] # q[j] }

\* The pages the API may answer with: at most PageSize of the items not yet
\* delivered, an empty page only when none is left.
Pages(left) ==
    { p \in SUBSET left : Cardinality(p) <= PageSize /\ (p = {} => left = {}) }

\* Faulty variant: a run that raised keeps the cursor it had advanced to.
StateOnFailure_Partial(st, last, hashes) ==
    Some([last_value |-> last, unique_hashes |-> hashes])

\* pipeline.run: the resource state of a run that raised is dropped, the
\* state of a run that finished is kept.
StateOnFailure(st, last, hashes) == st

StateOnSuccess(st, inc, last, hashes) ==
    IF inc THEN Some([last_value |-> last, unique_hashes |-> hashes]) ELSE st

\* ------------------------------------------------------------------- state
VARIABLES
    upstream,       \* the items the API holds
    changes,        \* number of upstream changes so far
    state,          \* resource state of the pipeline, kept between runs
    state0,         \* the resource state the current run started with
    entry,          \* entry point of the current run
    phase,          \* "Idle", "Signing", "Fetching", "Completed", "Failed"
    failure,        \* "none", "token", "page"
    access_token,   \* ActigraphOAuth2.access_token
    tokenRequests,  \* token requests made by this authenticator
    tokenStatus,    \* status of the last token answer of the run, 0 if none
    issued,         \* the token the token endpoint gave last
    request,        \* the last signed request: Absent or Some([...])
    signs,          \* sign calls that returned in this run
    sent,           \* page requests sent in this run
    unauthorized,   \* 401 answers in this run
    pending,        \* items not yet delivered in this run
    emitted,        \* items handed to the loader in this run
    rejected,       \* items dropped by the cursor in this run
    start_value, start_hashes, last_value, unique_hashes,
    resume,         \* Some(state0) of the last failed run of main(), if no
                    \* run has finished since
    dirty,          \* the API changed since the last finished run of main()
                    \* (or no such run yet)
    stale,          \* ids of the items the API changed, leaving the cursor
                    \* field as it was or lower, from a content the kept
                    \* cursor had passed or seen; no finished run has
                    \* emitted the new content yet
    kept_max,       \* the greatest last_value any run has kept so far
    tpc, theader    \* concurrent sign calls: position and header per thread

vars == << upstream, changes, state, state0, entry, phase, failure, access_token,
           tokenRequests, tokenStatus, issued, request, signs, sent,
           unauthorized, pending, emitted, rejected, start_value,
           start_hashes, last_value, unique_hashes, resume, dirty, stale,
           kept_max, tpc, theader >>

Threads == 1..NumThreads

authVars == << access_token, tokenRequests, tokenStatus, issued >>
threadVars == << tpc, theader >>
runVars == << pending, emitted, rejected, start_value, start_hashes,
              last_value, unique_hashes >>
worldVars == << upstream, changes >>

IsIncremental == IsSome(ConfigOf(entry).incremental)

Init ==
    /\ upstream = {}
    /\ changes = 0
    /\ state = Absent
    /\ state0 = Absent
    /\ entry = "main"
    /\ phase = "Idle"
    /\ failure = "none"
    /\ access_token = NoToken
    /\ tokenRequests = 0
    /\ tokenStatus = 0
    /\ issued = NoToken
    /\ request = Absent
    /\ signs = 0
    /\ sent = 0
    /\ unauthorized = 0
    /\ pending = {}
    /\ emitted = {}
    /\ rejected = {}
    /\ start_value = initial_value
    /\ start_hashes = {}
    /\ last_value = initial_value
    /\ unique_hashes = {}
    /\ resume = Absent
    /\ dirty = TRUE
    /\ stale = {}
    /\ kept_max = initial_value
    /\ tpc = [t \in Threads |-> "idle"]
    /\ theader = [t \in Threads |-> Absent]

\* The kept cursor has passed the item or has seen it at its last value: a
\* run with the cursor would drop it.
Covered(o, st) ==
    \/ StrLess(o[cursor_path], StartValue(st))
    \/ o[cursor_path] = StartValue(st) /\ RowHash(o) \in StartHashes(st)

\* The greatest last_value kept so far, after a step that may keep one.
KeepMax ==
    kept_max' = IF IsSome(state') /\ StrLess(kept_max, The(state').last_value)
                  THEN The(state').last_value
                  ELSE kept_max

\* The API gains an item or changes one, between runs.
ApiUpsert ==
    /\ phase = "Idle"
    /\ changes < MaxChanges
    /\ \E r \in ApiRecord :
          /\ r \notin upstream
          /\ upstream' = { x \in upstream : x.id # r.id } \cup {r}
          /\ stale' = IF \E o \in upstream :
                            /\ o.id = r.id
                            /\ ~StrLess(o[cursor_path], r[cursor_path])
                            /\ \/ o.id \in stale
                               \/ Covered(o, state)
                        THEN stale \cup {r.id}
                        ELSE stale \ {r.id}
    /\ changes' = changes + 1
    /\ dirty' = TRUE
    /\ UNCHANGED << state, state0, entry, phase, failure, request, signs,
                    sent, unauthorized, resume, kept_max >>
    /\ UNCHANGED << authVars, threadVars, runVars >>

\* main() / actigraph_source(): a new source with a new authenticator
\* (ActigraphOAuth2.__init__ sets access_token = NoToken and asks for nothing).
StartRun ==
    /\ phase = "Idle"
    /\ \E e \in Entries :
         /\ entry' = e
         /\ LET inc == IsSome(ConfigOf(e).incremental)
            IN  /\ start_value' = IF inc THEN StartValue(state) ELSE initial_value
                /\ start_hashes' = IF inc THEN StartHashes(state) ELSE {}
                /\ last_value' = start_value'
                /\ unique_hashes' = start_hashes'
    /\ phase' = "Signing"
    /\ failure' = "none"
    /\ access_token' = NoToken
    /\ tokenRequests' = 0
    /\ tokenStatus' = 0
    /\ issued' = NoToken
    /\ request' = Absent
    /\ signs' = 0
    /\ sent' = 0
    /\ unauthorized' = 0
    /\ pending' = upstream
    /\ emitted' = {}
    /\ rejected' = {}
    /\ state0' = state
    /\ UNCHANGED << state, resume, dirty, stale, kept_max >>
    /\ UNCHANGED << worldVars, threadVars >>

Fail(kind) ==
    /\ phase' = "Failed"
    /\ failure' = kind
    /\ state' = StateOnFailure(state, last_value, unique_hashes)
    /\ resume' = IF entry = "main" THEN Some(state0) ELSE resume

\* ActigraphOAuth2.__call__ for the next page request.
Sign ==
    /\ phase = "Signing"
    /\ IF NeedsToken(access_token)
         THEN \E status \in TokenStatuses :
                LET tok == Mint(issued) IN
                /\ tokenRequests' = tokenRequests + 1
                /\ tokenStatus' = status
                /\ IF raise_for_status(status)
                     THEN /\ Fail("token")
                          /\ UNCHANGED << access_token, issued, request, signs >>
                     ELSE /\ access_token' = tok
                          /\ issued' = tok
                          /\ request' = Some([Authorization |-> Bearer(tok),
                                              params |-> QueryParams(ConfigOf(entry))])
                          /\ signs' = signs + 1
                          /\ phase' = "Fetching"
                          /\ UNCHANGED << failure, state, resume >>
         ELSE /\ request' = Some([Authorization |-> Bearer(access_token),
                                  params |-> QueryParams(ConfigOf(entry))])
              /\ signs' = signs + 1
              /\ phase' = "Fetching"
              /\ UNCHANGED << failure, state, resume, authVars >>
    /\ KeepMax
    /\ UNCHANGED << state0, entry, sent, unauthorized, dirty, stale >>
    /\ UNCHANGED << worldVars, threadVars, runVars >>

\* The answer to a signed page request, and the items of the page through
\* the cursor; the last page ends the run and the state is kept.
Respond ==
    /\ phase = "Fetching"
    /\ sent' = sent + 1
    /\ \E status \in PageStatuses :
         IF ResponseAction(status) = "raise"
           THEN /\ Fail("page")
                /\ unauthorized' = IF status = 401 THEN unauthorized + 1
                                                   ELSE unauthorized
                /\ UNCHANGED runVars
           ELSE /\ unauthorized' = IF status = 401 THEN unauthorized + 1
                                                   ELSE unauthorized
                /\ \E page \in (IF status = 200 THEN Pages(pending) ELSE {{}}) :
                   \E items \in Orders(page) :
                     LET r == Feed(items, IsIncremental, start_value,
                                   start_hashes,
                                   [emitted |-> emitted, rejected |-> rejected,
                                    last_value |-> last_value,
                                    unique_hashes |-> unique_hashes])
                         done == status = 200 /\ pending \ page = {}
                     IN  /\ pending' = pending \ page
                         /\ emitted' = r.emitted
                         /\ rejected' = r.rejected
                         /\ last_value' = r.last_value
                         /\ unique_hashes' = r.unique_hashes
                         /\ UNCHANGED << start_value, start_hashes >>
                         /\ phase' = IF done THEN "Completed" ELSE "Signing"
                         /\ state' = IF done
                                       THEN StateOnSuccess(state, IsIncremental,
                                                r.last_value, r.unique_hashes)
                                       ELSE state
                         /\ UNCHANGED << failure, resume >>
    /\ KeepMax
    /\ UNCHANGED << state0, entry, request, signs, dirty, stale >>
    /\ UNCHANGED << worldVars, authVars, threadVars >>

\* The process ends: the source, its authenticator and the cursor of the run
\* are gone, the next run starts from the kept state.
Return ==
    /\ phase \in {"Completed", "Failed"}
    /\ phase' = "Idle"
    /\ entry' = "main"
    /\ failure' = "none"
    /\ access_token' = NoToken
    /\ tokenRequests' = 0
    /\ tokenStatus' = 0
    /\ issued' = NoToken
    /\ request' = Absent
    /\ signs' = 0
    /\ sent' = 0
    /\ unauthorized' = 0
    /\ pending' = {}
    /\ emitted' = {}
    /\ rejected' = {}
    /\ start_value' = initial_value
    /\ start_hashes' = {}
    /\ last_value' = initial_value
    /\ unique_hashes' = {}
    /\ resume' = IF phase = "Completed" THEN Absent ELSE resume
    /\ dirty' = IF phase = "Completed" /\ entry = "main" THEN FALSE ELSE dirty
    /\ state0' = state
    /\ stale' = IF phase = "Completed"
                  THEN stale \ { r.id : r \in emitted }
                  ELSE stale
    /\ UNCHANGED << state, kept_max >>
    /\ UNCHANGED << worldVars, threadVars >>

Next == ApiUpsert \/ StartRun \/ Sign \/ Respond \/ Return

Spec == Init /\ [][Next]_vars

\* ------------------------------------------------- concurrent sign calls
\* NumThreads threads call ActigraphOAuth2.__call__ on one new authenticator.
\* A thread can be preempted between the test of access_token, the POST of
\* obtain_token, the store of the token and the read that builds the header.
ConcInit ==
    /\ upstream = {}
    /\ changes = 0
    /\ state = Absent
    /\ state0 = Absent
    /\ entry = "main"
    /\ phase = "Idle"
    /\ failure = "none"
    /\ access_token = NoToken
    /\ tokenRequests = 0
    /\ tokenStatus = 0
    /\ issued = NoToken
    /\ request = Absent
    /\ signs = 0
    /\ sent = 0
    /\ unauthorized = 0
    /\ pending = {}
    /\ emitted = {}
    /\ rejected = {}
    /\ start_value = initial_value
    /\ start_hashes = {}
    /\ last_value = initial_value
    /\ unique_hashes = {}
    /\ resume = Absent
    /\ dirty = TRUE
    /\ stale = {}
    /\ kept_max = initial_value
    /\ tpc = [t \in Threads |-> "call"]
    /\ theader = [t \in Threads |-> Absent]

concFrame ==
    UNCHANGED << upstream, changes, state, state0, entry, phase, failure,
                 request,
                 signs, sent, unauthorized, pending, emitted, rejected,
                 start_value, start_hashes, last_value, unique_hashes, resume,
                 dirty, stale, kept_max >>

\* line 68: if not self.access_token
T_Check(t) ==
    /\ tpc[t] = "call"
    /\ tpc' = [tpc EXCEPT ![t] = IF NeedsToken(access_token) THEN "post"
                                                              ELSE "header"]
    /\ UNCHANGED << authVars, theader >>
    /\ concFrame

\* lines 55-59: self.session.post(...) is sent
T_Post(t) ==
    /\ tpc[t] = "post"
    /\ tokenRequests' = tokenRequests + 1
    /\ tpc' = [tpc EXCEPT ![t] = "await"]
    /\ UNCHANGED << access_token, tokenStatus, issued, theader >>
    /\ concFrame

\* lines 60-63: the answer arrives; raise_for_status, then the token is stored
T_Answer(t) ==
    /\ tpc[t] = "await"
    /\ \E status \in TokenStatuses :
         /\ tokenStatus' = status
         /\ IF raise_for_status(status)
              THEN /\ tpc' = [tpc EXCEPT ![t] = "raised"]
                   /\ UNCHANGED << access_token, issued >>
              ELSE /\ issued' = Mint(issued)
                   /\ access_token' = issued'
                   /\ tpc' = [tpc EXCEPT ![t] = "header"]
    /\ UNCHANGED << tokenRequests, theader >>
    /\ concFrame

\* line 71: request.headers["Authorization"] = f"Bearer {self.access_token}"
T_Header(t) ==
    /\ tpc[t] = "header"
    /\ theader' = [theader EXCEPT ![t] = Some(Bearer(access_token))]
    /\ tpc' = [tpc EXCEPT ![t] = "done"]
    /\ UNCHANGED authVars
    /\ concFrame

ConcNext ==
    \E t \in Threads : T_Check(t) \/ T_Post(t) \/ T_Answer(t) \/ T_Header(t)

ConcSpec == ConcInit /\ [][ConcNext]_vars

\* ------------------------------------------------------------ properties
Processed == emitted \cup rejected
Cursor(r) == r[cursor_path]
InRun == phase \in {"Signing", "Fetching", "Completed", "Failed"}

\* The greatest of a non-empty set of timestamps, whatever the order.
MaxOf(S) == CHOOSE m \in S : \A x \in S : ~StrLess(m, x)

\* A row is new to a cursor that starts at sv with the hashes sh.
Newer(r, sv, sh) ==
    \/ StrLess(sv, Cursor(r))
    \/ Cursor(r) = sv /\ RowHash(r) \notin sh

\* C1: within the sequential sign calls of one authenticator, construction
\* asks for no token, the first sign call asks for exactly one, later sign
\* calls ask for none, and each signed request carries
\* Authorization: Bearer <the token the endpoint returned>.
C1_TokenObtainedOnce ==
    /\ (phase = "Signing" /\ signs = 0) => (tokenRequests = 0 /\ access_token = NoToken)
    /\ signs >= 1 => (tokenRequests = 1 /\ access_token = issued /\ issued # NoToken)
    /\ IsSome(request) => The(request).Authorization = <<"Bearer", issued>>
    /\ InRun => (IsSome(request) <=> signs >= 1)

C1_Witness == signs >= 2 /\ tokenRequests = 1 /\ IsSome(request)

\* C2: N concurrent first-use sign calls make exactly one token request in
\* every interleaving, and every request is signed with that one token.
C2_SingleFlight ==
    (\A t \in Threads : tpc[t] # "raised") =>
        /\ tokenRequests <= 1
        /\ \A t, u \in Threads :
              (IsSome(theader[t]) /\ IsSome(theader[u])) => theader[t] = theader[u]
        /\ (\A t \in Threads : tpc[t] = "done") => tokenRequests = 1

\* C3: when the token endpoint answers with a non-2xx status the run fails on
\* authentication, no token is cached, no page request is signed or sent, no
\* record is emitted and the kept cursor is the one the run started with.
C3_TokenFailure ==
    (tokenStatus # 0 /\ tokenStatus \notin 200..299) =>
        /\ phase = "Failed" /\ failure = "token"
        /\ access_token = NoToken
        /\ request = Absent /\ signs = 0 /\ sent = 0
        /\ emitted = {}
        /\ state = state0 /\ last_value = start_value

C3_Witness == phase = "Failed" /\ failure = "token" /\ tokenStatus = 400

\* C4 as stated: a run that a 401 page answer ended has made one forced
\* re-authentication and one retry, the retry answered 401 as well.
C4_ReauthAndRetry ==
    (phase = "Failed" /\ failure = "page" /\ unauthorized >= 1) =>
        (tokenRequests = 2 /\ unauthorized = 2)

\* C4 amended: a 401 page answer ends the run at once: no new token request,
\* the cached token is kept, the page is not asked for again.
C4_FirstUnauthorizedIsFatal ==
    unauthorized >= 1 =>
        /\ phase = "Failed" /\ failure = "page"
        /\ unauthorized = 1
        /\ tokenRequests = 1 /\ access_token = issued
        /\ sent = signs

C4_Witness == unauthorized = 1 /\ phase = "Failed" /\ sent >= 2 /\ emitted # {}

\* C5: a run with refresh enabled starts from the epoch sentinel whatever
\* cursor was kept, sends no cursor filter, and emits every record returned;
\* for main(refresh=True) as for actigraph_source(refresh=True).
C5_RefreshIgnoresState ==
    (InRun /\ entry \in RefreshEntries) =>
        /\ start_value = initial_value
        /\ IsSome(request) => The(request).params = {"fromDate", "toDate"}
        /\ rejected = {}

\* C6 as stated: in Incremental mode a record is accepted exactly when its
\* cursor value is >= the start value, compared as strings.
C6_AcceptIffNotBelow ==
    (InRun /\ entry = "main") =>
        \A r \in Processed : r \in emitted <=> ~StrLess(Cursor(r), StartValue(state0))

\* C6 amended: a record is accepted exactly when its cursor value is above
\* the start value, or equals it and the record was not among the records
\* emitted at that value by the run that kept the cursor; every record below
\* the start value is rejected.
C6_AcceptIffNew ==
    (InRun /\ entry = "main") =>
        /\ start_value = StartValue(state0)
        /\ \A r \in Processed :
              r \in emitted <=> Newer(r, StartValue(state0), StartHashes(state0))
        /\ \A r \in Processed :
              StrLess(Cursor(r), StartValue(state0)) => r \in rejected

C6_Witness ==
    /\ InRun /\ entry = "main"
    /\ \E r \in emitted : Cursor(r) = start_value
    /\ \E r \in rejected : Cursor(r) = start_value

\* C7: an Incremental run after a finished Incremental run, the API unchanged
\* in between, emits no record and leaves the kept cursor as it was, the
\* record at the kept cursor value included.
C7_Idempotent ==
    (phase = "Completed" /\ entry = "main" /\ ~dirty) =>
        (emitted = {} /\ state = state0)

C7_Witness ==
    /\ phase = "Completed" /\ entry = "main" /\ ~dirty
    /\ \E r \in rejected : Cursor(r) = start_value

C9_ResumeFromHighest ==
    (phase = "Failed" /\ entry = "main" /\ sent >= 2) =>
        \A r \in pending :
            Newer(r, start_value, start_hashes) => Newer(r, last_value, unique_hashes)

\* C9 amended: a failed run leaves the kept cursor at the value it started
\* from, and the run that follows emits every record of the API that the
\* failed run had emitted or had still to emit.
C9_ResumeFromStart ==
    /\ phase = "Failed" => state = state0
    /\ (phase = "Completed" /\ IsSome(resume)) =>
          \A r \in Processed :
              Newer(r, StartValue(The(resume)), StartHashes(The(resume)))
                  => r \in emitted

C9_Witness ==
    /\ phase = "Completed" /\ entry = "main" /\ IsSome(resume)
    /\ Cardinality(emitted) >= 2

\* C10: every emitted record carries the study identifier and the ingestion
\* date, the partition columns the pipeline declares.
C10_PartitionFields ==
    \A r \in emitted : PartitionColumns \subseteq DOMAIN r

C12_StartIsKeptMax ==
    /\ (IF IsSome(state) THEN The(state).last_value ELSE initial_value)
          = kept_max
    /\ (phase \in {"Signing", "Fetching"} /\ entry # "source_refresh") =>
           start_value = kept_max
    /\ (InRun /\ entry # "source_refresh") =>
           start_value = (IF IsSome(state0) THEN The(state0).last_value
                                            ELSE initial_value)

C12_Witness ==
    /\ phase = "Fetching"
    /\ entry = "main"
    /\ IsSome(resume)
    /\ start_value = kept_max
    /\ start_value # initial_value
    /\ \E r \in upstream : StrLess(Cursor(r), start_value)
====
